---- MODULE Spec2Model ----
(***************************************************************************)
(* Model of replace_sprite_indices_gui.py: the mapping loader, the         *)
(* per-line regular-expression substitution, the file rewriter with its    *)
(* backup, and the tree walk of scan_and_replace.                          *)
(*                                                                         *)
(* Text is modelled character by character: a Python str is a sequence of  *)
(* one-character strings, a file is a sequence of lines (each line keeps   *)
(* its terminator, as readlines() returns it), a mapping is a function     *)
(* from key text to value text.  A file holds its lines as text mode reads *)
(* and writes them; the translation of line terminators is not modelled.   *)
(***************************************************************************)
EXTENDS Integers, Sequences, FiniteSets, TLC

(***************************************************************************)
(* Character classes of Python's re module, restricted to ASCII.           *)
(***************************************************************************)
Digit == {"0", "1", "2", "3", "4", "5", "6", "7", "8", "9"}

Letter ==
    {"a", "b", "c", "d", "e", "f", "g", "h", "i", "j", "k", "l", "m",
     "n", "o", "p", "q", "r", "s", "t", "u", "v", "w", "x", "y", "z",
     "A", "B", "C", "D", "E", "F", "G", "H", "I", "J", "K", "L", "M",
     "N", "O", "P", "Q", "R", "S", "T", "U", "V", "W", "X", "Y", "Z"}

\* \w
Word == Letter \cup Digit \cup {"_"}

\* \s, and the characters str.strip() removes
Space == {" ", "\t", "\n", "\r", "\f"}

(***************************************************************************)
(* Program constants.                                                      *)
(***************************************************************************)
\* SPRITE_VARS[1] is the literal name, SPRITE_VARS[2] the shape \w*spr\w*.
SPRITE_INDEX == <<"s", "p", "r", "i", "t", "e", "_", "i", "n", "d", "e", "x">>

SPR == <<"s", "p", "r">>

SPRITE_VARS == <<"sprite_index", "\\w*spr\\w*">>

LOG_FILENAME ==
    <<"s", "p", "r", "i", "t", "e", "r", "e", "p", "l", "a", "c", "e", "m", "e", "n", "t",
      "_", "l", "o", "g", ".", "t", "x", "t">>

(***************************************************************************)
(* String helpers.                                                         *)
(***************************************************************************)
\* s[i:j] with 1-based i and exclusive j
Slice(s, i, j) == SubSeq(s, i, j - 1)

\* s.startswith(t, at position i)
StartsAt(s, i, t) ==
    /\ i + Len(t) - 1 <= Len(s)
    /\ \A k \in 1..Len(t) : s[i + k - 1] = t[k]

\* the first position >= i of s that holds no character of class C
RECURSIVE SkipWhile(_, _, _)
SkipWhile(s, i, C) ==
    IF i <= Len(s) /\ s[i] \in C THEN SkipWhile(s, i + 1, C) ELSE i

\* the last position <= j of s that holds no character of class C (0 if none)
RECURSIVE SkipBack(_, _, _)
SkipBack(s, j, C) ==
    IF j >= 1 /\ s[j] \in C THEN SkipBack(s, j - 1, C) ELSE j

\* str.strip()
Strip(s) ==
    LET i == SkipWhile(s, 1, Space)
        j == SkipBack(s, Len(s), Space)
    IN  IF i > j THEN <<>> ELSE SubSeq(s, i, j)

\* t in s, for a non-empty t
Contains(s, t) == \E i \in 1..Len(s) : StartsAt(s, i, t)

\* s.find(c) for a character c: 0 when absent
Find(s, c) ==
    IF \E i \in 1..Len(s) : s[i] = c
    THEN CHOOSE i \in 1..Len(s) : s[i] = c /\ \A k \in 1..(i - 1) : s[k] # c
    ELSE 0

(***************************************************************************)
(* load_sprite_map: one entry per line "key-value"; blank lines, lines     *)
(* starting with # and lines without - are skipped; a later line for the   *)
(* same key overrides an earlier one.                                      *)
(***************************************************************************)
MapPut(m, k, v) == [x \in DOMAIN m \cup {k} |-> IF x = k THEN v ELSE m[x]]

\* one line of the mapping file, already stripped
LoadLine(line, dash, mapping) ==
    IF line = <<>> \/ line[1] = "#" THEN mapping
    ELSE IF dash = 0 THEN mapping
    ELSE MapPut(mapping,
                Strip(Slice(line, 1, dash)),
                Strip(Slice(line, dash + 1, Len(line) + 1)))

LoadStripped(line, mapping) == LoadLine(line, Find(line, "-"), mapping)

RECURSIVE LoadFrom(_, _, _)
LoadFrom(flines, n, mapping) ==
    IF n > Len(flines) THEN mapping
    ELSE LoadFrom(flines, n + 1, LoadStripped(Strip(flines[n]), mapping))

load_sprite_map(flines) == LoadFrom(flines, 1, <<>>)

(***************************************************************************)
(* The pattern  (var)\s*=\s*(\d+)\s*;  of replace_in_file.                 *)
(*                                                                         *)
(* MatchTail matches  \s*=\s*(\d+)\s*;  from position j, for a name that   *)
(* runs from p to j.  The classes \s, =, \d and ; are pairwise disjoint,   *)
(* so the greedy match is the only one.                                    *)
(***************************************************************************)
NoMatch == [ok |-> FALSE, start |-> 0, nameEnd |-> 0, numStart |-> 0, numEnd |-> 0, end |-> 0]

\* ... ; at the first position c after the spaces that follow the digits
MatchSemi(s, p, j, d, n, c) ==
    IF c <= Len(s) /\ s[c] = ";"
    THEN [ok |-> TRUE, start |-> p, nameEnd |-> j, numStart |-> d, numEnd |-> n, end |-> c + 1]
    ELSE NoMatch

\* ... (\d+) from d to n, at least one digit
MatchDigits(s, p, j, d, n) ==
    IF n > d THEN MatchSemi(s, p, j, d, n, SkipWhile(s, n, Space)) ELSE NoMatch

\* ... = at the first position e after the spaces that follow the name
MatchEq(s, p, j, e) ==
    IF e <= Len(s) /\ s[e] = "="
    THEN MatchDigits(s, p, j, SkipWhile(s, e + 1, Space),
                     SkipWhile(s, SkipWhile(s, e + 1, Space), Digit))
    ELSE NoMatch

MatchTail(s, p, j) == MatchEq(s, p, j, SkipWhile(s, j, Space))

\* (sprite_index)\s*=\s*(\d+)\s*;  anchored at p
MatchExact(s, p) ==
    IF StartsAt(s, p, SPRITE_INDEX) THEN MatchTail(s, p, p + Len(SPRITE_INDEX)) ELSE NoMatch

\* (\w*spr\w*)\s*=\s*(\d+)\s*;  anchored at p: the name is the whole run of
\* word characters from p (the trailing \w* cannot stop short of a character
\* that is neither \s nor =), and it holds "spr".
MatchName(s, p, w) ==
    IF w > p /\ Contains(Slice(s, p, w), SPR) THEN MatchTail(s, p, w) ELSE NoMatch

MatchWild(s, p) == MatchName(s, p, SkipWhile(s, p, Word))

MatchAt(var, s, p) == IF var = 1 THEN MatchExact(s, p) ELSE MatchWild(s, p)

\* re.search from position pos: the leftmost position with a match
RECURSIVE Search(_, _, _)
SearchOr(var, s, pos, m) == IF m.ok THEN m ELSE Search(var, s, pos + 1)

Search(var, s, pos) ==
    IF pos > Len(s) THEN NoMatch ELSE SearchOr(var, s, pos, MatchAt(var, s, pos))

(***************************************************************************)
(* Paths.  A path is the text  <directory>/<name> ; the tree is one        *)
(* directory deep, which is all os.walk needs to show.                     *)
(***************************************************************************)
\* os.path.join(root, file)
Join(root, file) ==
    IF root = <<>> \/ root[Len(root)] = "/" THEN root \o file
    ELSE root \o <<"/">> \o file

\* the position of the last "/" of path, 0 when there is none
RECURSIVE LastSlash(_, _)
LastSlash(path, j) ==
    IF j >= 1 /\ path[j] # "/" THEN LastSlash(path, j - 1) ELSE j

\* os.path.basename(path)
Basename(path) == Slice(path, LastSlash(path, Len(path)) + 1, Len(path) + 1)

\* os.path.dirname(path)
DirnameAt(path, j) ==
    IF j <= 1 THEN Slice(path, 1, j + 1) ELSE Slice(path, 1, j)

Dirname(path) == DirnameAt(path, LastSlash(path, Len(path)))

\* file.endswith(ext)
EndsWith(file, ext) ==
    /\ Len(ext) <= Len(file)
    /\ StartsAt(file, Len(file) - Len(ext) + 1, ext)

GML == <<".", "g", "m", "l">>

YY == <<".", "y", "y">>

YYP == <<".", "y", "y", "p">>

CODE_EXTENSIONS == <<GML, YY, YYP>>

BAK == <<".", "b", "a", "k">>

TXT == <<".", "t", "x", "t">>

\* faulty variant: one more extension in the list
EligibleAlsoTxt(file) == \E ext \in {GML, YY, YYP, TXT} : EndsWith(file, ext)

\* any(file.endswith(ext) for ext in CODE_EXTENSIONS)
Eligible(file) == \E i \in 1..Len(CODE_EXTENSIONS) : EndsWith(file, CODE_EXTENSIONS[i])

(***************************************************************************)
(* replace_in_file, the part that computes.                                *)
(*                                                                         *)
(* repl is the callback of re.sub for one match m of the line s.  ctx      *)
(* holds what the closure reads: sprite_map, orig_line, idx and filename.  *)
(* When the digits are a key it returns the replacement text, sends one    *)
(* message to the log callbacks and appends one record                     *)
(* (orig_line, new_line, idx); otherwise it returns the matched text.      *)
(* What the code names new_line is the replacement text.                   *)
(***************************************************************************)
\* f"[{os.path.basename(filename)}:{idx}] {orig_line.strip()} -> {new_line}"
Message(filename, idx, orig_line, new_line) ==
    [kind |-> "subst", base |-> Basename(filename), idx |-> idx,
     orig |-> Strip(orig_line), new |-> new_line]

Accepted(ctx, new_line) ==
    [text |-> new_line,
     msgs |-> <<Message(ctx.filename, ctx.idx, ctx.orig_line, new_line)>>,
     recs |-> <<<<ctx.orig_line, new_line, ctx.idx>>>>]

ReplWith(m, s, ctx, varname, num) ==
    IF num \in DOMAIN ctx.sprite_map
    THEN Accepted(ctx, varname \o <<" ", "=", " ">> \o ctx.sprite_map[num] \o <<";">>)
    ELSE [text |-> Slice(s, m.start, m.end), msgs |-> <<>>, recs |-> <<>>]

repl(m, s, ctx) ==
    ReplWith(m, s, ctx, Slice(s, m.start, m.nameEnd), Slice(s, m.numStart, m.numEnd))

\* re.sub(pattern, repl, s): the matches are found left to right in s, each
\* search starting where the previous match ended; out is the text built
\* so far, acc the messages sent and the records appended so far.
RECURSIVE SubFrom(_, _, _, _, _, _)
SubRepl(var, s, pos, ctx, out, acc, m, r) ==
    SubFrom(var, s, m.end, ctx,
            out \o Slice(s, pos, m.start) \o r.text,
            [msgs |-> acc.msgs \o r.msgs, recs |-> acc.recs \o r.recs])

SubMatch(var, s, pos, ctx, out, acc, m) ==
    IF ~m.ok
    THEN [line |-> out \o Slice(s, pos, Len(s) + 1), acc |-> acc]
    ELSE SubRepl(var, s, pos, ctx, out, acc, m, repl(m, s, ctx))

SubFrom(var, s, pos, ctx, out, acc) ==
    SubMatch(var, s, pos, ctx, out, acc, Search(var, s, pos))

\* the loop "for var in SPRITE_VARS" over one line: every pattern is applied
\* to the line as the previous pattern left it
RECURSIVE SubVars(_, _, _, _)
SubNext(var, ctx, r) == SubVars(var + 1, r.line, ctx, r.acc)

SubVars(var, line, ctx, acc) ==
    IF var > Len(SPRITE_VARS) THEN [line |-> line, acc |-> acc]
    ELSE SubNext(var, ctx, SubFrom(var, line, 1, ctx, <<>>, acc))

\* the loop "for idx, line in enumerate(lines, 1)": the new lines, the
\* messages, the records, and whether some line differs from its original
RECURSIVE ReplaceLines(_, _, _, _, _)
\* faulty variant: "changed = True" outside its if
LineDoneAlways(lines, idx, filename, sprite_map, st, r) ==
    ReplaceLines(lines, idx + 1, filename, sprite_map,
                 [changed      |-> TRUE,
                  replacements |-> r.acc.recs,
                  msgs         |-> r.acc.msgs,
                  new_lines    |-> Append(st.new_lines, r.line)])

\* "if line != orig_line: changed = True" and new_lines.append(line)
LineDone(lines, idx, filename, sprite_map, st, r) ==
    ReplaceLines(lines, idx + 1, filename, sprite_map,
                 [changed      |-> st.changed \/ (r.line # lines[idx]),
                  replacements |-> r.acc.recs,
                  msgs         |-> r.acc.msgs,
                  new_lines    |-> Append(st.new_lines, r.line)])

ReplaceLines(lines, idx, filename, sprite_map, st) ==
    IF idx > Len(lines) THEN st
    ELSE LineDone(lines, idx, filename, sprite_map, st,
                  SubVars(1, lines[idx],
                          [sprite_map |-> sprite_map, orig_line |-> lines[idx],
                           idx |-> idx, filename |-> filename],
                          [msgs |-> st.msgs, recs |-> st.replacements]))

Rewrite(lines, filename, sprite_map) ==
    ReplaceLines(lines, 1, filename, sprite_map,
                 [changed |-> FALSE, replacements |-> <<>>, msgs |-> <<>>,
                  new_lines |-> <<>>])

(***************************************************************************)
(* The inputs: a project directory with two eligible files, one file of    *)
(* another extension that holds a matching assignment, the lines the files *)
(* are made of, and the mapping files a run may be given.                  *)
(***************************************************************************)
MaxLines == 2

project_dir == <<"p">>

NameA == <<"a", ".", "g", "m", "l">>

NameB == <<"o", ".", "y", "y">>

NameN == <<"n", ".", "t", "x", "t">>

PathA == Join(project_dir, NameA)

PathB == Join(project_dir, NameB)

PathN == Join(project_dir, NameN)

\* the order in which the directory lists its names
DirOrder == <<NameA, NameA \o BAK, NameN, LOG_FILENAME, NameB, NameB \o BAK, NameN \o BAK>>

Paths == {Join(project_dir, DirOrder[i]) : i \in 1..Len(DirOrder)} \ {Join(project_dir, LOG_FILENAME)}

\* sys.argv[0]: the program started from the project directory, or from elsewhere
Argv0s == {<<"p", "/", "t">>, <<"q", "/", "t">>}

LineIndex ==
    <<"s", "p", "r", "i", "t", "e", "_", "i", "n", "d", "e", "x", " ", "=", " ", "1", ";", "\n">>

LineTight == <<"m", "y", "_", "s", "p", "r", "=", "2", ";", "\n">>

LineTwo ==
    <<"\t", "s", "p", "r", "i", "t", "e", "_", "i", "n", "d", "e", "x", " ", "=", " ", "1", ";",
      " ", "s", "p", "r", "_", "b", " ", "=", " ", "2", ";", "\n">>

LineOther == <<"x", " ", "=", " ", "1", ";", "\n">>

LineCanon == <<"s", "p", "r", " ", "=", " ", "1", ";", "\n">>

LineLast ==
    <<"s", "p", "r", "i", "t", "e", "_", "i", "n", "d", "e", "x", " ", "=", " ", "3", " ", ";">>

\* the lines the first file is made of
Lines == {LineIndex, LineTwo, LineCanon}

RECURSIVE SeqsUpTo(_, _)
SeqsUpTo(S, n) ==
    IF n = 0 THEN {<<>>}
    ELSE LET T == SeqsUpTo(S, n - 1)
         IN  T \cup {Append(t, x) : t \in T, x \in S}

Contents == SeqsUpTo(Lines, MaxLines)

\* what an editor may leave in a file between two runs
EditContents == {<<LineOther, LineCanon>>, <<LineTight>>}

MapNames ==
    <<<<"#", " ", "s", "p", "r", "i", "t", "e", "s", "\n">>,
      <<"\n">>,
      <<"1", "-", "s", "p", "r", "_", "i", "d", "l", "e", "\n">>,
      <<"n", "o", "d", "a", "s", "h", "\n">>,
      <<" ", "2", " ", "-", " ", "s", "p", "r", "_", "w", "a", "l", "k", "\n">>,
      <<"2", "-", "s", "p", "r", "_", "r", "u", "n", "\n">>>>

MapChain ==
    <<<<"1", "-", "2", "\n">>,
      <<"2", "-", "3", "\n">>>>

MapSame ==
    <<<<"1", "-", "1", "\n">>>>

MappingFiles == {MapNames, MapChain, MapSame}

\* the files an open() fails on: (unreadable, unwritable)
Faults ==
    {<<{}, {}>>, <<{PathA}, {}>>, <<{PathB}, {}>>, <<{}, {PathA}>>}

Absent == [exists |-> FALSE, lines |-> <<>>]

File(lines) == [exists |-> TRUE, lines |-> lines]

(***************************************************************************)
(* State.                                                                  *)
(*   fs               the files of the project directory                   *)
(*   unreadable,                                                           *)
(*   unwritable       the paths on which open() for reading / for writing  *)
(*                    raises IOError                                       *)
(*   pc               "idle", "walk" (inside the os.walk loop), "done"     *)
(*                    (scan_and_replace returned), "raised" (an IOError    *)
(*                    of replace_in_file left scan_and_replace),           *)
(*                    "no_mapping" (load_sprite_map raised)                *)
(*   sprite_map, replaced_files, all_replacements                          *)
(*                    the locals of scan_and_replace; the last two are     *)
(*                    the values returned when pc = "done"                 *)
(*   todo             the names os.walk has listed and not yet visited     *)
(*   log_f            the session log: its path and the lines written      *)
(*   gui              the messages gui_log_callback received in this run   *)
(*   status           the last value status_callback received              *)
(*   fs0              history: the files as the current run found them     *)
(*   succ             history: whether the current run follows, with       *)
(*                    nothing in between, a completed run with the same    *)
(*                    mapping, and how many files that run changed         *)
(***************************************************************************)
VARIABLES fs, unreadable, unwritable, pc, sprite_map, todo, replaced_files,
          all_replacements, log_f, gui, status, fs0, succ

vars == <<fs, unreadable, unwritable, pc, sprite_map, todo, replaced_files,
          all_replacements, log_f, gui, status, fs0, succ>>

NoSucc == [same |-> FALSE, prevN |-> 0]

Init ==
    /\ \E c \in Contents :
          fs = [p \in Paths |->
                  IF p = PathA THEN File(c)
                  ELSE IF p = PathB THEN File(<<LineTight, LineLast>>)
                  ELSE IF p = PathN THEN File(<<LineIndex>>)
                  ELSE Absent]
    /\ \E f \in Faults : unreadable = f[1] /\ unwritable = f[2]
    /\ pc = "idle"
    /\ sprite_map = <<>>
    /\ todo = <<>>
    /\ replaced_files = <<>>
    /\ all_replacements = <<>>
    /\ log_f = [path |-> <<>>, lines |-> <<>>]
    /\ gui = <<>>
    /\ status = [msg |-> "Ready", path |-> <<>>]
    /\ fs0 = fs
    /\ succ = NoSucc

(***************************************************************************)
(* backup_file and the writing part of replace_in_file.                    *)
(***************************************************************************)
\* faulty variant: the copy is made whether or not the backup exists
backup_file_refresh(files, filepath) ==
    [files EXCEPT ![filepath \o BAK] = files[filepath]]

\* shutil.copy(filepath, filepath + '.bak') unless that path exists
backup_file(files, filepath) ==
    IF ~files[filepath \o BAK].exists
    THEN [files EXCEPT ![filepath \o BAK] = files[filepath]]
    ELSE files

\* what replace_in_file leaves: the files, what it returns, the messages
\* the callbacks received, and whether an open() raised
Outcome(raised, files, r) ==
    [raised |-> raised, files |-> files, changed |-> r.changed,
     replacements |-> r.replacements, msgs |-> r.msgs]

\* faulty variant: the file is written first and backed up afterwards
WriteThenBackup(files, filename, r) ==
    IF filename \in unwritable
    THEN Outcome(TRUE, files, r)
    ELSE Outcome(FALSE, backup_file([files EXCEPT ![filename] = File(r.new_lines)], filename), r)

\* open(filename, 'w') and writelines, after the backup
WriteBack(backed, filename, r) ==
    IF filename \in unwritable
    THEN Outcome(TRUE, backed, r)
    ELSE Outcome(FALSE, [backed EXCEPT ![filename] = File(r.new_lines)], r)

\* faulty variant: the file is backed up and written whether or not it changed
FinalizeAlways(files, filename, r) ==
    WriteBack(backup_file(files, filename), filename, r)

\* faulty variant: the order of backup and write is swapped
FinalizeSwapped(files, filename, r) ==
    IF r.changed
    THEN WriteThenBackup(files, filename, r)
    ELSE Outcome(FALSE, files, r)

\* "if changed:" and what follows it
Finalize(files, filename, r) ==
    IF r.changed
    THEN WriteBack(backup_file(files, filename), filename, r)
    ELSE Outcome(FALSE, files, r)

\* replace_in_file(filename, sprite_map, gui_log_callback, file_log_callback)
\* on the files `files`: the files it leaves, what it returns, the messages
\* the callbacks received, and whether an open() raised.  The messages of a
\* file are sent while its lines are computed, before anything is written.
replace_in_file(files, filename, smap) ==
    IF filename \in unreadable
    THEN [raised |-> TRUE, files |-> files, changed |-> FALSE,
          replacements |-> <<>>, msgs |-> <<>>]
    ELSE Finalize(files, filename, Rewrite(files[filename].lines, filename, smap))

(***************************************************************************)
(* scan_and_replace, one step per file of the walk.  The repository's only *)
(* caller passes both callbacks, and so does the model.                    *)
(***************************************************************************)
\* the names os.walk lists: the files of the directory, the session log
\* among them when it was opened there
ListDir(files, log_path) ==
    SelectSeq(DirOrder,
              LAMBDA n : IF n = LOG_FILENAME THEN log_path = Join(project_dir, n)
                         ELSE files[Join(project_dir, n)].exists)

\* load_sprite_map, open(log_path, "w"), and the listing of the directory
Started(log_path, loaded) ==
    /\ sprite_map' = loaded
    /\ log_f' = [path |-> log_path, lines |-> <<>>]
    /\ todo' = ListDir(fs, log_path)
    /\ succ' = [same  |-> pc = "done" /\ loaded = sprite_map,
                prevN |-> IF pc = "done" THEN Len(replaced_files) ELSE 0]

StartRun(mapping_file, argv0) ==
    /\ pc # "walk"
    /\ Started(Join(Dirname(argv0), LOG_FILENAME), load_sprite_map(mapping_file))
    /\ replaced_files' = <<>>
    /\ all_replacements' = <<>>
    /\ gui' = <<>>
    /\ fs0' = fs
    /\ pc' = "walk"
    /\ UNCHANGED <<fs, unreadable, unwritable, status>>

\* the mapping file cannot be opened: load_sprite_map raises before the
\* log is opened
LoadFails ==
    /\ pc # "walk"
    /\ pc' = "no_mapping"
    /\ succ' = NoSucc
    /\ UNCHANGED <<fs, unreadable, unwritable, sprite_map, todo, replaced_files,
                   all_replacements, log_f, gui, status, fs0>>

\* a listed file whose name ends with none of CODE_EXTENSIONS
Skip ==
    /\ pc = "walk"
    /\ todo # <<>>
    /\ ~Eligible(Head(todo))
    /\ todo' = Tail(todo)
    /\ UNCHANGED <<fs, unreadable, unwritable, pc, sprite_map, replaced_files,
                   all_replacements, log_f, gui, status, fs0, succ>>

\* the body of the loop for an eligible file, r being what replace_in_file did
Scanned(filepath, r) ==
    /\ status' = [msg |-> "Scanning", path |-> filepath]
    /\ gui' = gui \o <<[kind |-> "checking", path |-> filepath]>> \o r.msgs
    /\ log_f' = [log_f EXCEPT !.lines = @ \o r.msgs]
    /\ fs' = r.files
    /\ IF r.raised
       THEN /\ pc' = "raised"
            /\ UNCHANGED <<todo, replaced_files, all_replacements>>
       ELSE /\ pc' = pc
            /\ todo' = Tail(todo)
            /\ IF r.changed
               THEN /\ replaced_files' = Append(replaced_files, filepath)
                    /\ all_replacements' = all_replacements \o
                         [i \in 1..Len(r.replacements) |->
                             <<filepath>> \o r.replacements[i]]
               ELSE UNCHANGED <<replaced_files, all_replacements>>

ScanFile(filepath) == Scanned(filepath, replace_in_file(fs, filepath, sprite_map))

Scan ==
    /\ pc = "walk"
    /\ todo # <<>>
    /\ Eligible(Head(todo))
    /\ ScanFile(Join(project_dir, Head(todo)))
    /\ UNCHANGED <<unreadable, unwritable, sprite_map, fs0, succ>>

\* after the walk: the summary, "Done.", and the return
Finish ==
    /\ pc = "walk"
    /\ todo = <<>>
    /\ LET summary == [kind |-> "summary", n |-> Len(replaced_files),
                       log_path |-> log_f.path]
       IN  /\ gui' = Append(gui, summary)
           /\ log_f' = [log_f EXCEPT !.lines = Append(@, summary)]
    /\ status' = [msg |-> "Done.", path |-> <<>>]
    /\ pc' = "done"
    /\ UNCHANGED <<fs, unreadable, unwritable, sprite_map, todo, replaced_files,
                   all_replacements, fs0, succ>>

(***************************************************************************)
(* The environment, between runs: the program is closed and an editor      *)
(* saves the first file.  The locals of the last run are gone, and so is,  *)
(* for the model, the session log, which the next run truncates.           *)
(***************************************************************************)
Edit(path, lines) ==
    /\ pc \in {"done", "raised", "no_mapping"}
    /\ fs[path] # File(lines)
    /\ fs' = [fs EXCEPT ![path] = File(lines)]
    /\ fs0' = fs'
    /\ pc' = "idle"
    /\ sprite_map' = <<>>
    /\ todo' = <<>>
    /\ replaced_files' = <<>>
    /\ all_replacements' = <<>>
    /\ log_f' = [path |-> <<>>, lines |-> <<>>]
    /\ gui' = <<>>
    /\ status' = [msg |-> "Ready", path |-> <<>>]
    /\ succ' = NoSucc
    /\ UNCHANGED <<unreadable, unwritable>>

Next ==
    \/ \E mf \in MappingFiles, argv0 \in Argv0s : StartRun(mf, argv0)
    \/ LoadFails
    \/ Skip
    \/ Scan
    \/ Finish
    \/ \E lines \in EditContents : Edit(PathA, lines)

Spec == Init /\ [][Next]_vars

(***************************************************************************)
(* Properties.                                                             *)
(***************************************************************************)
EligiblePaths == {p \in Paths : Eligible(Basename(p))}

\* the substitution lines of the session log
SubstLines == {i \in 1..Len(log_f.lines) : log_f.lines[i].kind = "subst"}

\* the session log holds a substitution line for the file at path
Logged(path) == \E i \in SubstLines : log_f.lines[i].base = Basename(path)

Reported(path) == \E i \in 1..Len(replaced_files) : replaced_files[i] = path

\* a value that is an identifier: a letter or _ followed by word characters
Identifier(v) ==
    /\ v # <<>>
    /\ v[1] \in Letter \cup {"_"}
    /\ \A i \in 1..Len(v) : v[i] \in Word

IdentifierValued(m) == \A k \in DOMAIN m : Identifier(m[k])

\* C1: an IOError of replace_in_file on one file never leaves
\* scan_and_replace: the walk goes on and the run reaches its summary.
C1_FailureConfined == pc # "raised"

\* C2, as claimed: every file reported as changed has a .bak whose content
\* is the content the file had immediately before this run's write.
C2_BackupIsPreWrite ==
    \A p \in EligiblePaths :
        Reported(p) => /\ fs[p \o BAK].exists
                       /\ fs[p \o BAK].lines = fs0[p].lines

\* C2, amended: every file reported as changed has a .bak; it holds the
\* content the file had immediately before this run's write when no .bak
\* existed then, and otherwise what the .bak held before the write.
C2_BackupIsFirstOriginal ==
    \A p \in EligiblePaths :
        Reported(p) => /\ fs[p \o BAK].exists
                       /\ fs[p \o BAK] = IF fs0[p \o BAK].exists THEN fs0[p \o BAK]
                                          ELSE fs0[p]

\* a completed run that rewrote a file whose .bak was older than the
\* content it replaced
C2_Witness ==
    /\ pc = "done"
    /\ \E p \in EligiblePaths :
          /\ Reported(p)
          /\ fs0[p \o BAK].exists
          /\ fs0[p \o BAK].lines # fs0[p].lines
          /\ fs[p].lines # fs0[p].lines

\* C3, as claimed: a run that directly follows a completed run with the
\* same mapping changes no file.
C3_Idempotent == (pc = "done" /\ succ.same) => replaced_files = <<>>

\* C3, amended: when every value of the mapping is an identifier, a run
\* that directly follows a completed run with the same mapping changes no
\* file.
C3_IdempotentForNames ==
    (pc = "done" /\ succ.same /\ IdentifierValued(sprite_map))
        => replaced_files = <<>>

\* the second of two runs with a mapping of identifiers, the first of
\* which changed files
C3_Witness ==
    /\ pc = "done"
    /\ succ.same
    /\ succ.prevN > 0
    /\ sprite_map # <<>>
    /\ IdentifierValued(sprite_map)

\* C4: a file is backed up or written only if a substitution was accepted
\* in it, and a file none of whose lines differs after the pattern passes
\* is left as it was, with no .bak created or changed (stated as: a file
\* that was written or whose .bak changed has a line that differs).
C4_WriteOnlyIfChanged ==
    \A p \in EligiblePaths :
        /\ (fs[p] # fs0[p] \/ fs[p \o BAK] # fs0[p \o BAK]) => Logged(p)
        /\ (fs[p] # fs0[p] \/ fs[p \o BAK] # fs0[p \o BAK])
              => Rewrite(fs0[p].lines, p, sprite_map).new_lines # fs0[p].lines

\* a completed run that accepted a substitution in a file and left every
\* line of it as it was
C4_Witness ==
    /\ pc = "done"
    /\ \E p \in EligiblePaths :
          /\ Logged(p)
          /\ fs0[p].lines # <<>>
          /\ Rewrite(fs0[p].lines, p, sprite_map).new_lines = fs0[p].lines
          /\ ~fs[p \o BAK].exists

\* C5: no step changes a .bak that exists, and the walk never takes a
\* .bak for an eligible file.
C5_BackupNeverRewritten ==
    /\ [][\A p \in EligiblePaths :
             fs[p \o BAK].exists => fs'[p \o BAK] = fs[p \o BAK]]_vars
    /\ [](\A i \in 1..Len(todo) : Eligible(todo[i]) => ~EndsWith(todo[i], BAK))

\* a run rewrote a file whose .bak existed when the run began, and the
\* listing of the walk held that .bak
C5_Witness ==
    /\ pc = "walk"
    /\ todo # <<>>
    /\ Head(todo) = NameA \o BAK
    /\ Reported(PathA)
    /\ fs[PathA] # fs0[PathA]
    /\ fs0[PathA \o BAK].exists

\* C6: when a run completes, the returned list of changed files holds the
\* files that were rewritten, and the returned records are as many as the
\* substitution lines of the session log, which ends with the summary.
C6_AggregateReporting ==
    pc = "done" =>
        /\ Len(replaced_files) = Cardinality({p \in EligiblePaths : fs[p] # fs0[p]})
        /\ Len(all_replacements) = Cardinality(SubstLines)
        /\ Len(log_f.lines) = Cardinality(SubstLines) + 1
        /\ log_f.lines[Len(log_f.lines)].kind = "summary"

\* a name that ends with one of .gml, .yy, .yyp
Recognized(name) == EndsWith(name, GML) \/ EndsWith(name, YY) \/ EndsWith(name, YYP)

OtherPaths == {p \in Paths : ~Recognized(Basename(p))}

\* C7, as claimed: a run neither creates nor changes a file whose name
\* does not end with a recognized extension.
C7_NonInterference == \A p \in OtherPaths : fs[p] = fs0[p]

\* C7, amended: a file whose name does not end with a recognized extension
\* is never changed, and is created only as the .bak of an eligible file
\* in which a substitution was accepted, holding that file's content.
C7_OnlyBackupsCreated ==
    \A p \in OtherPaths :
        fs[p] # fs0[p] =>
            /\ ~fs0[p].exists
            /\ \E f \in Paths : /\ Recognized(Basename(f))
                                /\ p = f \o BAK
                                /\ fs[p] = fs0[f]
                                /\ Logged(f)

\* a completed run that changed files and left alone a .txt file holding
\* an assignment it would have replaced
C7_Witness ==
    /\ pc = "done"
    /\ replaced_files # <<>>
    /\ fs[PathN].exists
    /\ fs[PathN] = fs0[PathN]
    /\ Rewrite(fs[PathN].lines, PathN, sprite_map).new_lines # fs[PathN].lines

Assignment(name, value) == name \o <<" ", "=", " ">> \o value \o <<";">>

NameOf(s, m) == Slice(s, m.start, m.nameEnd)

NumOf(s, m) == Slice(s, m.numStart, m.numEnd)

\* what C8 says of a line whose text t, trimmed, is one assignment m, and
\* whose text after the run, trimmed, is u
ExactFor(t, m, u) ==
    (m.ok /\ m.end = Len(t) + 1) =>
        u = IF NumOf(t, m) \in DOMAIN sprite_map
            THEN Assignment(NameOf(t, m), sprite_map[NumOf(t, m)])
            ELSE t

\* C8: when a run completes, every line that held one assignment
\* <name> = <digits>; to a name containing spr reads <name> = <value>;
\* with the value mapped to <digits>, or is as it was when <digits> is no key.
C8_ExactSubstitution ==
    pc = "done" =>
        \A p \in EligiblePaths : \A i \in 1..Len(fs0[p].lines) :
            ExactFor(Strip(fs0[p].lines[i]),
                     MatchWild(Strip(fs0[p].lines[i]), 1),
                     Strip(fs[p].lines[i]))

\* the returned records of line i of the file at path
RecordsAt(path, i) ==
    {j \in 1..Len(all_replacements) :
        all_replacements[j][1] = path /\ all_replacements[j][4] = i}

\* what C9 says of line i of the file at p, whose text s holds the two
\* assignments m1 and m2 and no third (m3)
TwoHitsFor(p, i, s, m1, m2, m3) ==
    (/\ m1.ok /\ m2.ok /\ ~m3.ok
     /\ NumOf(s, m1) \in DOMAIN sprite_map
     /\ NumOf(s, m2) \in DOMAIN sprite_map) =>
        /\ fs[p].lines[i] =
              Slice(s, 1, m1.start)
              \o Assignment(NameOf(s, m1), sprite_map[NumOf(s, m1)])
              \o Slice(s, m1.end, m2.start)
              \o Assignment(NameOf(s, m2), sprite_map[NumOf(s, m2)])
              \o Slice(s, m2.end, Len(s) + 1)
        /\ Cardinality(RecordsAt(p, i)) = 2

TwoHits(p, i, s, m1) ==
    m1.ok => TwoHitsFor(p, i, s, m1, Search(2, s, m1.end),
                        Search(2, s, Search(2, s, m1.end).end))

\* C9: when a run completes, every line that held two assignments, each
\* with digits that are a key, has both replaced by the value of their own
\* key and has exactly two records, both with the number of that line.
C9_MultiHit ==
    pc = "done" =>
        \A p \in EligiblePaths : \A i \in 1..Len(fs0[p].lines) :
            TwoHits(p, i, fs0[p].lines[i], Search(2, fs0[p].lines[i], 1))

\* C10: every returned record carries the original line and, as its new
\* text, the line as the substitution left it: for the last record of a
\* line that is the line the run wrote, compared here after trimming.
C10_RecordHoldsNewLine ==
    pc = "done" =>
        \A j \in 1..Len(all_replacements) :
            /\ all_replacements[j][2] = fs0[all_replacements[j][1]].lines[all_replacements[j][4]]
            /\ (j = Len(all_replacements)
                \/ all_replacements[j + 1][1] # all_replacements[j][1]
                \/ all_replacements[j + 1][4] # all_replacements[j][4])
                  => Strip(all_replacements[j][3])
                        = Strip(fs[all_replacements[j][1]].lines[all_replacements[j][4]])
====
